---- MODULE Spec2Model ----
(***************************************************************************)
(* The client connection core of the Feng RTSP server (rtsp_client.c):     *)
(* the listener callback that admits clients, the per-client worker        *)
(* (client_loop) with its libev loop, the registry (clients_list guarded   *)
(* by clients_list_lock), the shutdown broadcast (clients_cleanup), the    *)
(* stream-timeout timer callback and the HTTP-tunnel pair teardown.        *)
(*                                                                         *)
(* Threads: one listener thread, one pool worker per client being served,  *)
(* one thread that calls clients_cleanup.  Every action is one step of one *)
(* thread; steps that touch shared memory without a lock                   *)
(* (connection_count++ / --) are split into their load and their store.    *)
(***************************************************************************)
EXTENDS Integers, Sequences, FiniteSets, TLC

\* ------------------------------------------------------------- bounds
NClients == 2            \* client structures the listener may admit
MaxTime == 27            \* seconds of wall clock explored
MaxSessions == 2         \* RTP sessions attached to one RTSP session
KickSessions == 1        \* the same, where every way to stop a loop is explored
MaxFailures == 2         \* listener callbacks that end in an admission error
MaxWrites == 3           \* messages written to one Client
MsgLen == 2              \* bytes in the longest message

\* ------------------------------------------------------------- constants
LIVE_STREAM_BYE_TIMEOUT == 6
STREAM_TIMEOUT == 12

Clients == 1..NClients
Listener == 0                      \* the listener thread
Threads == 0..NClients             \* the listener, and the worker serving client c
NoClient == 0

\* client->pair == NULL
NullPair == [rtsp_client |-> NoClient, http_client |-> NoClient]

VARIABLES
    env,                  \* the workload explored (fixed in a behaviour)
    nadmitted,            \* Clients pushed to the pool so far
    lpc, lreg,            \* listener: position in rtsp_client_incoming_cb, loaded count
    last_accept,          \* outcome of the last listener callback
    pc,                   \* per client: position of its worker in client_loop
    client_ev_init_errors,\* libev error flag of the listener thread (at Listener)
                          \* and of the pool thread inside client_loop for c (at c)
    idle_errors,          \* idle pool threads whose error flag is set
    loop,                 \* per client: client->loop ("none", "live", "destroyed")
    loop_done,            \* per client: libev's loop_done (set by ev_unloop)
    socktype, write_data, \* per client: transport kind and write strategy
    pair,                 \* per client: client->pair
    freed,                \* per client: number of rtsp_client_free calls on it
    clients_list,         \* the registry (GPtrArray)
    clients_list_lock,    \* registry mutex: "free" or its holder
    cl_pc, cl_i,          \* clients_cleanup: position and foreach index
    connection_count,     \* feng_default_vhost->connection_count
    reg,                  \* per client: count loaded by its worker's count--
    now,                  \* wall clock, seconds
    timer_at,             \* per client: expiry of ev_timeout, -1 when inactive
    session,              \* per client: client->session != NULL
    rtp_sessions,         \* per client: session->rtp_sessions
    decs,                 \* history: executions of connection_count-- per client
    stops,                \* history: what issued ev_unloop on the client
    init_err,             \* history: syserr reported during the client's init in client_loop
    loop_err,             \* history: syserr reported while ev_loop_new made the client's loop
    nfailed,              \* history: listener callbacks that ended in an admission error
    stray_sds,            \* accepted descriptors that are open and belong to no Client
    statics,              \* clients_list, client_threads and clients_list_lock:
                          \* "live", "freed", or "fault" once freed memory was hit
    out_queue,            \* per client: client->out_queue, buffers pending transmission
    ev_io_write,          \* per client: the write watcher is active
    wire,                 \* per client: the bytes the socket has taken, in order
    enqueued              \* history: the bytes handed to the write strategy, in order

vars == << env, nadmitted, lpc, lreg, last_accept, pc, idle_errors,
           client_ev_init_errors, loop, loop_done, socktype, write_data, pair,
           freed, clients_list, clients_list_lock, cl_pc, cl_i,
           connection_count, reg, now, timer_at, session, rtp_sessions,
           decs, stops, init_err, loop_err, nfailed, stray_sds, statics,
           out_queue, ev_io_write, wire, enqueued >>

\* The output path of the Clients, and the listener's bookkeeping.
ioVars == << out_queue, ev_io_write, wire, enqueued >>

admVars == << loop_err, nfailed, stray_sds, statics >>

lifeVars == << nadmitted, lpc, lreg, last_accept, pc, idle_errors,
               client_ev_init_errors, loop, loop_done, socktype, write_data,
               pair, freed, clients_list, clients_list_lock, cl_pc, cl_i,
               connection_count, reg, decs, stops, init_err, ioVars, admVars >>

\* ------------------------------------------------------------- helpers
Range(s) == { s[i] : i \in 1..Len(s) }

Min(a, b) == IF a < b THEN a ELSE b

Max(a, b) == IF a > b THEN a ELSE b

InRegistry(c) == c \in Range(clients_list)

\* An add that stores the pointer twice.
PtrArrayAddTwice(list, c) == Append(Append(list, c), c)

\* g_ptr_array_add
PtrArrayAdd(list, c) == Append(list, c)

\* A remove that drops the last element whatever was asked for.
PtrArrayRemoveLast(list, c) ==
    IF list = << >> THEN list ELSE SubSeq(list, 1, Len(list) - 1)

\* g_ptr_array_remove_fast: the first match is overwritten by the last
\* element and the array shrinks by one; no match leaves it alone.
PtrArrayRemoveFast(list, c) ==
    IF c \notin Range(list) THEN list
    ELSE LET i == CHOOSE k \in 1..Len(list) :
                      list[k] = c /\ \A j \in 1..(k - 1) : list[j] # c
             n == Len(list)
         IN  [k \in 1..(n - 1) |-> IF k = i THEN list[n] ELSE list[k]]


\* The process runs until a thread faults on freed memory.
Alive == statics # "fault"

\* ------------------------------------------------------------- listener
\* rtsp_client_incoming_cb, up to the load of connection_count++.
\* outcome: which system call fails, if any; proto: SO_PROTOCOL of the
\* accepted socket; err: libev reports a system error inside ev_loop_new
\* (on the listener thread, whose flag libev_syserr then sets).
SockType(proto) ==
    CASE proto = "TCP" -> "RTSP_TCP"
      [] proto = "SCTP" /\ env.sctp -> "RTSP_SCTP"
      [] OTHER -> "unset"

\* Every Client is given the direct strategy.
WriteDataDirect(proto) == "rtsp_sctp_send_rtsp"

\* lines 392-406: the write strategy that goes with the socket protocol.
WriteData(proto) ==
    CASE proto = "TCP" -> "rtsp_write_data_queue"
      [] proto = "SCTP" /\ env.sctp -> "rtsp_sctp_send_rtsp"
      [] OTHER -> "NULL"

libev_syserr(flags, t) == [flags EXCEPT ![t] = 1]

\* Every failure leaves the callback at once, as the accept failure does.
IncomingErrorReturns(outcome, sds) ==
    IF outcome = "accept" THEN sds ELSE sds + 1

\* lines 361-378, 423-424: the open descriptors no Client owns, after a
\* callback that met the failure outcome.  A failed accept yields no
\* descriptor; past it the descriptor is open and the error label closes it.
IncomingError(outcome, sds) ==
    IF outcome = "accept" THEN sds ELSE (sds + 1) - 1

IncomingAccept(outcome, proto, err) ==
    /\ Alive
    /\ lpc = "idle"
    /\ nadmitted < env.nclients
    /\ outcome = "getsockopt" => env.sctp
    /\ ~env.sctp => proto = "TCP"
    /\ IF outcome # "ok"
         THEN /\ nfailed < MaxFailures
              /\ nfailed' = nfailed + 1
              /\ stray_sds' = IncomingError(outcome, stray_sds)
              /\ last_accept' = IF outcome = "accept" THEN "accept_failed"
                                ELSE "closed"
              /\ UNCHANGED << lpc, lreg, pc, loop, socktype, write_data,
                              client_ev_init_errors, loop_err >>
       ELSE LET c == nadmitted + 1 IN
              /\ last_accept' = "admitted"
              /\ pc' = [pc EXCEPT ![c] = "new"]
              /\ loop' = [loop EXCEPT ![c] = "live"]
              /\ client_ev_init_errors' =
                     IF err THEN libev_syserr(client_ev_init_errors, Listener)
                     ELSE client_ev_init_errors
              /\ loop_err' = [loop_err EXCEPT ![c] = err]
              /\ socktype' = [socktype EXCEPT ![c] = SockType(proto)]
              /\ write_data' = [write_data EXCEPT ![c] = WriteData(proto)]
              /\ lreg' = connection_count
              /\ lpc' = "inc"
              /\ UNCHANGED << nfailed, stray_sds >>
    /\ UNCHANGED << env, ioVars, statics, nadmitted, idle_errors, loop_done,
                    pair, freed, clients_list, clients_list_lock, cl_pc, cl_i,
                    connection_count, reg, now, timer_at, session,
                    rtp_sessions, decs, stops, init_err >>

\* The store of connection_count++ and g_thread_pool_push.
IncomingPush ==
    /\ Alive
    /\ lpc = "inc"
    /\ connection_count' = lreg + 1
    /\ lreg' = 0
    /\ pc' = [pc EXCEPT ![nadmitted + 1] = "queued"]
    /\ nadmitted' = nadmitted + 1
    /\ lpc' = "idle"
    /\ UNCHANGED << env, ioVars, admVars, last_accept, idle_errors,
                    client_ev_init_errors, loop, loop_done, socktype,
                    write_data, pair, freed, clients_list, clients_list_lock,
                    cl_pc, cl_i, reg, now, timer_at, session, rtp_sessions,
                    decs, stops, init_err >>

\* ------------------------------------------------------------- worker
\* The flag of the listener thread is read instead of the worker's own.
InitErrorsOfListener(flags, t) == flags[Listener] = 0

\* line 261: the test of the thread's flag.
InitErrorsClear(flags, t) == flags[t] = 0

\* client_loop lines 229-261.  The pool hands the client to a thread:
\* one whose flag is clear (a new thread, or an idle one that never saw an
\* error) or, with stale, an idle thread whose flag an earlier client left
\* set; nothing ever clears the flag.  Watchers and timer are initialised
\* (ev_init leaves the timer inactive); err says whether libev reports a
\* system error meanwhile; then the thread's flag decides.  A pool that has
\* been freed hands out no Client any more.
ClientLoopInit(c, stale, err) ==
    /\ statics = "live"
    /\ pc[c] = "queued"
    /\ stale => idle_errors > 0
    /\ idle_errors' = IF stale THEN idle_errors - 1 ELSE idle_errors
    /\ LET picked == [client_ev_init_errors EXCEPT ![c] = IF stale THEN 1 ELSE 0]
       IN  client_ev_init_errors' = IF err THEN libev_syserr(picked, c) ELSE picked
    /\ init_err' = [init_err EXCEPT ![c] = err]
    /\ timer_at' = [timer_at EXCEPT ![c] = -1]
    /\ pc' = [pc EXCEPT ![c] =
                 IF InitErrorsClear(client_ev_init_errors', c) THEN "add" ELSE "dec"]
    /\ UNCHANGED << env, ioVars, admVars, nadmitted, lpc, lreg, last_accept, loop, loop_done,
                    socktype, write_data, pair, freed, clients_list,
                    clients_list_lock, cl_pc, cl_i, connection_count, reg,
                    now, session, rtp_sessions, decs, stops >>

\* lines 262-264: lock, g_ptr_array_add, unlock.
Register(c) ==
    /\ Alive
    /\ pc[c] = "add"
    /\ clients_list_lock = "free"
    /\ clients_list' = PtrArrayAdd(clients_list, c)
    /\ pc' = [pc EXCEPT ![c] = "enter"]
    /\ UNCHANGED << env, ioVars, admVars, nadmitted, lpc, lreg, last_accept, idle_errors,
                    client_ev_init_errors, loop, loop_done, socktype,
                    write_data, pair, freed, clients_list_lock, cl_pc, cl_i,
                    connection_count, reg, now, timer_at, session,
                    rtp_sessions, decs, stops, init_err >>

\* line 266: ev_loop is entered; libev clears loop_done on entry.
EvLoopEnter(c) ==
    /\ Alive
    /\ pc[c] = "enter"
    /\ loop_done' = [loop_done EXCEPT ![c] = FALSE]
    /\ pc' = [pc EXCEPT ![c] = "run"]
    /\ UNCHANGED << env, ioVars, admVars, nadmitted, lpc, lreg, last_accept, idle_errors,
                    client_ev_init_errors, loop, socktype, write_data, pair,
                    freed, clients_list, clients_list_lock, cl_pc, cl_i,
                    connection_count, reg, now, timer_at, session,
                    rtp_sessions, decs, stops, init_err >>

\* An unloop that flips the flag each time it is called.
EvUnloopToggles(done, c) == [done EXCEPT ![c] = ~@]

\* ev_unloop(client->loop, EVUNLOOP_ONE): libev stores EVUNLOOP_ONE in the
\* loop's loop_done, whatever it held.
ev_unloop(done, c) == [done EXCEPT ![c] = TRUE]

\* The read callback meets EOF or a fatal error and stops its own loop.
ReadCbStop(c) ==
    /\ Alive
    /\ pc[c] = "run"
    /\ loop_done' = ev_unloop(loop_done, c)
    /\ stops' = [stops EXCEPT ![c] = @ \cup {"read"}]
    /\ UNCHANGED << env, ioVars, admVars, nadmitted, lpc, lreg, last_accept, pc, idle_errors,
                    client_ev_init_errors, loop, socktype,
                    write_data, pair, freed, clients_list, clients_list_lock,
                    cl_pc, cl_i, connection_count, reg, now, timer_at,
                    session, rtp_sessions, decs, init_err >>

\* lines 266-271: ev_loop returns once loop_done is set; the read and
\* write watchers and the timer are stopped.
EvLoopExit(c) ==
    /\ Alive
    /\ pc[c] = "run"
    /\ loop_done[c]
    /\ loop_done' = [loop_done EXCEPT ![c] = FALSE]
    /\ ev_io_write' = [ev_io_write EXCEPT ![c] = FALSE]
    /\ timer_at' = [timer_at EXCEPT ![c] = -1]
    /\ pc' = [pc EXCEPT ![c] = "stopped"]
    /\ UNCHANGED << env, out_queue, wire, enqueued, admVars, nadmitted, lpc, lreg, last_accept, idle_errors,
                    client_ev_init_errors, loop, socktype, write_data, pair,
                    freed, clients_list, clients_list_lock, cl_pc, cl_i,
                    connection_count, reg, now, session, rtp_sessions, decs,
                    stops, init_err >>

\* lines 274-276: lock, g_ptr_array_remove_fast, unlock.
Unregister(c) ==
    /\ Alive
    /\ pc[c] = "stopped"
    /\ clients_list_lock = "free"
    /\ clients_list' = PtrArrayRemoveFast(clients_list, c)
    /\ pc' = [pc EXCEPT ![c] = "dec"]
    /\ UNCHANGED << env, ioVars, admVars, nadmitted, lpc, lreg, last_accept, idle_errors,
                    client_ev_init_errors, loop, loop_done, socktype,
                    write_data, pair, freed, clients_list_lock, cl_pc, cl_i,
                    connection_count, reg, now, timer_at, session,
                    rtp_sessions, decs, stops, init_err >>

\* line 279, the load of client->vhost->connection_count--.
CountLoad(c) ==
    /\ Alive
    /\ pc[c] = "dec"
    /\ reg' = [reg EXCEPT ![c] = connection_count]
    /\ pc' = [pc EXCEPT ![c] = "dec_store"]
    /\ UNCHANGED << env, ioVars, admVars, nadmitted, lpc, lreg, last_accept, idle_errors,
                    client_ev_init_errors, loop, loop_done, socktype,
                    write_data, pair, freed, clients_list, clients_list_lock,
                    cl_pc, cl_i, connection_count, now, timer_at, session,
                    rtp_sessions, decs, stops, init_err >>

\* line 279, the store.
CountStore(c) ==
    /\ Alive
    /\ pc[c] = "dec_store"
    /\ connection_count' = reg[c] - 1
    /\ reg' = [reg EXCEPT ![c] = 0]
    /\ decs' = [decs EXCEPT ![c] = @ + 1]
    /\ pc' = [pc EXCEPT ![c] = "teardown"]
    /\ UNCHANGED << env, ioVars, admVars, nadmitted, lpc, lreg, last_accept, idle_errors,
                    client_ev_init_errors, loop, loop_done, socktype,
                    write_data, pair, freed, clients_list, clients_list_lock,
                    cl_pc, cl_i, now, timer_at, session, rtp_sessions,
                    stops, init_err >>

\* rtsp_client_free(x): the descriptor is closed, the session, the output
\* queue with its buffers and the Client structure are released.
rtsp_client_free(x) ==
    /\ freed' = [freed EXCEPT ![x] = Min(2, @ + 1)]
    /\ session' = [session EXCEPT ![x] = FALSE]
    /\ rtp_sessions' = [rtp_sessions EXCEPT ![x] = << >>]
    /\ out_queue' = [out_queue EXCEPT ![x] = << >>]

\* line 292: client_loop returns and its thread goes back to the pool,
\* keeping its flag.
ThreadReturns(c) ==
    /\ idle_errors' = idle_errors + client_ev_init_errors[c]
    /\ client_ev_init_errors' = [client_ev_init_errors EXCEPT ![c] = 0]

\* What a load of client->pair returns: the field, or, once the structure
\* has been released, whatever the released memory holds (the old value or
\* zero).
PairRead(c) == IF freed[c] = 0 THEN {pair[c]} ELSE {pair[c], NullPair}

\* The pair rule with a sibling that frees itself.
TeardownFreesSelfToo(c, p) ==
    IF p = NullPair THEN << c >>
    ELSE IF p.rtsp_client = c THEN << p.http_client, c >>
    ELSE << c >>

\* The pair test inverted.
TeardownFreesInverted(c, p) == IF p # NullPair THEN << c >> ELSE << >>

\* lines 286-291: the Clients this worker frees, in order, given the value
\* p it loaded from client->pair.
TeardownFrees(c, p) ==
    IF p = NullPair THEN << c >>
    ELSE IF p.rtsp_client = c THEN << p.http_client, c >>
    ELSE << >>

\* lines 281-289: client->loop = NULL, ev_loop_destroy, then the first
\* rtsp_client_free the pair rule asks for.
Teardown(c) ==
    /\ Alive
    /\ pc[c] = "teardown"
    /\ loop' = [loop EXCEPT ![c] = "destroyed"]
    /\ \E p \in PairRead(c) :
         LET fs == TeardownFrees(c, p) IN
           IF fs = << >>
             THEN /\ pc' = [pc EXCEPT ![c] = "done"]
                  /\ UNCHANGED << freed, session, rtp_sessions, out_queue >>
             ELSE /\ rtsp_client_free(fs[1])
                  /\ pc' = [pc EXCEPT ![c] =
                               IF Len(fs) > 1 THEN "free_self" ELSE "done"]
    /\ IF pc'[c] = "done" THEN ThreadReturns(c)
       ELSE UNCHANGED << client_ev_init_errors, idle_errors >>
    /\ UNCHANGED << env, ev_io_write, wire, enqueued, admVars, nadmitted, lpc, lreg, last_accept, loop_done, socktype, write_data,
                    pair, clients_list, clients_list_lock, cl_pc, cl_i,
                    connection_count, reg, now, timer_at, decs, stops,
                    init_err >>

\* line 290: rtsp_client_free(client) after the sibling has been freed.
FreeSelf(c) ==
    /\ Alive
    /\ pc[c] = "free_self"
    /\ rtsp_client_free(c)
    /\ pc' = [pc EXCEPT ![c] = "done"]
    /\ ThreadReturns(c)
    /\ UNCHANGED << env, ev_io_write, wire, enqueued, admVars, nadmitted, lpc, lreg, last_accept, loop, loop_done, socktype,
                    write_data, pair, clients_list, clients_list_lock, cl_pc,
                    cl_i, connection_count, reg, now, timer_at, decs, stops,
                    init_err >>

\* ------------------------------------------------------------- HTTP tunnel
\* The RTSP layer links two running Clients into an HTTP-tunnel pair:
\* p carries the RTSP requests, g is its sibling.
TunnelPair(g, p) ==
    /\ Alive
    /\ g # p
    /\ pc[g] = "run" /\ pc[p] = "run"
    /\ pair[g] = NullPair /\ pair[p] = NullPair
    /\ freed[g] = 0 /\ freed[p] = 0
    /\ pair' = [pair EXCEPT ![g] = [rtsp_client |-> p, http_client |-> g],
                            ![p] = [rtsp_client |-> p, http_client |-> g]]
    /\ UNCHANGED << env, ioVars, admVars, nadmitted, lpc, lreg, last_accept, pc, idle_errors,
                    client_ev_init_errors, loop, loop_done,
                    socktype, write_data, freed, clients_list,
                    clients_list_lock, cl_pc, cl_i, connection_count, reg,
                    now, timer_at, session, rtp_sessions, decs, stops,
                    init_err >>

\* ------------------------------------------------------------- timeouts
\* The RTSP layer creates the RTSP session of a running client (SETUP).
RtspSessionNew(c) ==
    /\ Alive
    /\ pc[c] = "run"
    /\ freed[c] = 0
    /\ ~session[c]
    /\ session' = [session EXCEPT ![c] = TRUE]
    /\ UNCHANGED << env, lifeVars, now, timer_at, rtp_sessions >>

\* The RTSP layer attaches a new RTP session; its last_packet_send_time
\* starts at the time of creation.  byes and byes_at_kick are history: the
\* RTCP BYEs emitted for the session, and how many of them had been emitted
\* when it first caused a hard kick (-1: it never did).
RtpSessionAttach(c, src) ==
    /\ Alive
    /\ pc[c] = "run"
    /\ freed[c] = 0
    /\ session[c]
    /\ Len(rtp_sessions[c]) < env.nsessions
    /\ rtp_sessions' = [rtp_sessions EXCEPT ![c] = Append(@,
           [source |-> src, last_packet_send_time |-> now,
            byes |-> 0, byes_at_kick |-> -1])]
    /\ UNCHANGED << env, lifeVars, now, timer_at, session >>

\* The RTSP layer starts the client's timeout timer from inside the loop:
\* ev_timer_again on the inactive timer arms it repeat seconds ahead.
TimerArm(c) ==
    /\ Alive
    /\ pc[c] = "run"
    /\ freed[c] = 0
    /\ timer_at[c] = -1
    /\ timer_at' = [timer_at EXCEPT ![c] = now + STREAM_TIMEOUT]
    /\ UNCHANGED << env, lifeVars, now, session, rtp_sessions >>

\* A soft timeout that gives way to the hard one.
SoftOnlyBelowHard(s, t) ==
    /\ s.source = "LIVE_SOURCE"
    /\ (t - s.last_packet_send_time) >= LIVE_STREAM_BYE_TIMEOUT
    /\ (t - s.last_packet_send_time) < STREAM_TIMEOUT

\* lines 193-194: the soft-timeout test.
SoftTimedOut(s, t) ==
    /\ s.source = "LIVE_SOURCE"
    /\ (t - s.last_packet_send_time) >= LIVE_STREAM_BYE_TIMEOUT

\* The hard timeout taken at the soft one's threshold.
HardAtByeTimeout(s, t) ==
    (t - s.last_packet_send_time) >= LIVE_STREAM_BYE_TIMEOUT

\* line 202: the hard-timeout test.
HardTimedOut(s, t) == (t - s.last_packet_send_time) >= STREAM_TIMEOUT

\* A check that sends the BYE whatever the source of the session.
CheckByesAnySource(s, t) ==
    LET s1 == IF (t - s.last_packet_send_time) >= LIVE_STREAM_BYE_TIMEOUT
                THEN [s EXCEPT !.byes = @ + 1] ELSE s
    IN  IF HardTimedOut(s1, t) /\ s1.byes_at_kick = -1
          THEN [s1 EXCEPT !.byes_at_kick = s1.byes]
          ELSE s1

\* check_if_any_rtp_session_timedout at time t, on the session's record:
\* first the BYE, then the kick.
check_if_any_rtp_session_timedout(s, t) ==
    LET s1 == IF SoftTimedOut(s, t) THEN [s EXCEPT !.byes = @ + 1] ELSE s
    IN  IF HardTimedOut(s1, t) /\ s1.byes_at_kick = -1
          THEN [s1 EXCEPT !.byes_at_kick = s1.byes]
          ELSE s1

\* A timer is due when its loop is running and its expiry has come.
TimerDue(c) == pc[c] = "run" /\ timer_at[c] # -1 /\ timer_at[c] <= now

\* g_slist_foreach over the sessions from the i-th on: loop_done after
\* every session past its hard timeout has called ev_unloop.
RECURSIVE KickEach(_, _, _, _, _)
KickEach(done, c, ss, i, t) ==
    IF i > Len(ss) THEN done
    ELSE KickEach(IF HardTimedOut(ss[i], t) THEN ev_unloop(done, c) ELSE done,
                  c, ss, i + 1, t)

\* client_ev_timeout: every RTP session is checked, each hard timeout
\* stops the loop, and ev_timer_again rearms the timer.
client_ev_timeout(c) ==
    /\ Alive
    /\ TimerDue(c)
    /\ LET checked == session[c] /\ rtp_sessions[c] # << >>
           kick == checked /\ \E i \in 1..Len(rtp_sessions[c]) :
                                  HardTimedOut(rtp_sessions[c][i], now)
       IN  /\ rtp_sessions' = [rtp_sessions EXCEPT ![c] =
                  IF checked
                    THEN [i \in 1..Len(@) |->
                             check_if_any_rtp_session_timedout(@[i], now)]
                    ELSE @]
           /\ loop_done' = IF checked
                             THEN KickEach(loop_done, c, rtp_sessions[c], 1, now)
                             ELSE loop_done
           /\ stops' = IF kick THEN [stops EXCEPT ![c] = @ \cup {"timeout"}]
                       ELSE stops
    /\ timer_at' = [timer_at EXCEPT ![c] = now + STREAM_TIMEOUT]
    /\ UNCHANGED << env, ioVars, admVars, nadmitted, lpc, lreg, last_accept,
                    pc, idle_errors, client_ev_init_errors, loop, socktype,
                    write_data, pair, freed, clients_list, clients_list_lock,
                    cl_pc, cl_i, connection_count, reg, now, session, decs,
                    init_err >>

\* The clock is sampled every ClockStep seconds, and only while some loop
\* runs (nothing else reads it); a due timer of a running loop fires first.
ClockStep == LIVE_STREAM_BYE_TIMEOUT \div 2

Tick ==
    /\ Alive
    /\ now + ClockStep <= MaxTime
    /\ \E c \in Clients : pc[c] = "run"
    /\ \A c \in Clients : ~(TimerDue(c) /\ ~loop_done[c])
    /\ now' = now + ClockStep
    /\ UNCHANGED << env, lifeVars, timer_at, session, rtp_sessions >>

\* ------------------------------------------------------------- output path
\* The k-th message written to a Client, len bytes long; a byte is named
\* by its message and its place in it.
Message(k, len) == [j \in 1..len |-> << k, j >>]

\* The bytes of a queue of buffers, head first.
RECURSIVE Flatten(_)
Flatten(q) == IF q = << >> THEN << >> ELSE Head(q) \o Flatten(Tail(q))

\* Messages written to c so far.
Written(c) ==
    IF enqueued[c] = << >> THEN 0 ELSE enqueued[c][Len(enqueued[c])][1]

\* The queued strategy: the buffer goes to the tail of the output queue
\* and the write watcher is started.
rtsp_write_data_queue(c, m) ==
    /\ out_queue' = [out_queue EXCEPT ![c] = Append(@, m)]
    /\ ev_io_write' = [ev_io_write EXCEPT ![c] = TRUE]
    /\ UNCHANGED wire

\* The direct strategy: one message-oriented send.
rtsp_sctp_send_rtsp(c, m) ==
    /\ wire' = [wire EXCEPT ![c] = @ \o m]
    /\ UNCHANGED << out_queue, ev_io_write >>

\* rtsp_write_string, called by the RTSP layer on the Client's own thread
\* while its loop runs: the message is handed to client->write_data.  A
\* Client without a strategy cannot be written to (the call goes through a
\* null pointer).
rtsp_write_string(c, len) ==
    /\ Alive
    /\ pc[c] = "run"
    /\ freed[c] = 0
    /\ Written(c) < MaxWrites
    /\ LET m == Message(Written(c) + 1, len) IN
         /\ enqueued' = [enqueued EXCEPT ![c] = @ \o m]
         /\ CASE write_data[c] = "rtsp_write_data_queue" ->
                     rtsp_write_data_queue(c, m)
              [] write_data[c] = "rtsp_sctp_send_rtsp" ->
                     rtsp_sctp_send_rtsp(c, m)
              [] OTHER -> FALSE
    /\ UNCHANGED << env, admVars, nadmitted, lpc, lreg, last_accept, pc,
                    idle_errors, client_ev_init_errors, loop, loop_done,
                    socktype, write_data, pair, freed, clients_list,
                    clients_list_lock, cl_pc, cl_i, connection_count, reg,
                    now, timer_at, session, rtp_sessions, decs, stops,
                    init_err >>

\* The write callback, run by the loop while the write watcher is active
\* and the socket is writable.  The socket takes n bytes of the buffer at
\* the head: all of them (the buffer leaves the queue), some (the rest
\* stays at the head) or none; n = -1 is a fatal error, which stops the
\* loop.  The watcher is stopped when the queue is empty.
rtsp_tcp_write_cb(c, n) ==
    /\ Alive
    /\ pc[c] = "run"
    /\ freed[c] = 0
    /\ ev_io_write[c]
    /\ IF out_queue[c] = << >>
         THEN /\ n = 0
              /\ ev_io_write' = [ev_io_write EXCEPT ![c] = FALSE]
              /\ UNCHANGED << out_queue, wire, loop_done, stops >>
       ELSE IF n = -1
         THEN /\ loop_done' = ev_unloop(loop_done, c)
              /\ stops' = [stops EXCEPT ![c] = @ \cup {"write"}]
              /\ UNCHANGED << out_queue, wire, ev_io_write >>
       ELSE LET head == Head(out_queue[c])
                rest == SubSeq(head, n + 1, Len(head))
                q == IF rest = << >> THEN Tail(out_queue[c])
                     ELSE << rest >> \o Tail(out_queue[c])
            IN  /\ n <= Len(head)
                /\ wire' = [wire EXCEPT ![c] = @ \o SubSeq(head, 1, n)]
                /\ out_queue' = [out_queue EXCEPT ![c] = q]
                /\ ev_io_write' = [ev_io_write EXCEPT ![c] = (q # << >>)]
                /\ UNCHANGED << loop_done, stops >>
    /\ UNCHANGED << env, admVars, enqueued, nadmitted, lpc, lreg,
                    last_accept, pc, idle_errors, client_ev_init_errors,
                    loop, socktype, write_data, pair, freed, clients_list,
                    clients_list_lock, cl_pc, cl_i, connection_count, reg,
                    now, timer_at, session, rtp_sessions, decs, init_err >>

\* ------------------------------------------------------------- shutdown
\* clients_cleanup -> clients_each: g_mutex_lock.
CleanupLock ==
    /\ Alive
    /\ cl_pc = "idle"
    /\ clients_list_lock = "free"
    /\ clients_list_lock' = "cleanup"
    /\ cl_i' = 1
    /\ cl_pc' = "foreach"
    /\ UNCHANGED << env, ioVars, admVars, nadmitted, lpc, lreg, last_accept, pc, idle_errors,
                    client_ev_init_errors, loop, loop_done,
                    socktype, write_data, pair, freed, clients_list,
                    connection_count, reg, now, timer_at, session,
                    rtp_sessions, decs, stops, init_err >>

\* A disconnect that stops the loop of every Client that has one.
ClientDisconnectAll(c) ==
    /\ loop_done' = [d \in Clients |-> loop[d] = "live" \/ loop_done[d]]
    /\ stops' = [d \in Clients |->
                     IF loop[d] = "live" THEN stops[d] \cup {"broadcast"}
                     ELSE stops[d]]

\* g_ptr_array_foreach: client_disconnect on the next element.
client_disconnect(c) ==
    /\ loop_done' = ev_unloop(loop_done, c)
    /\ stops' = [stops EXCEPT ![c] = @ \cup {"broadcast"}]

CleanupForeach ==
    /\ Alive
    /\ cl_pc = "foreach"
    /\ cl_i <= Len(clients_list)
    /\ client_disconnect(clients_list[cl_i])
    /\ cl_i' = cl_i + 1
    /\ UNCHANGED << env, ioVars, admVars, nadmitted, lpc, lreg, last_accept, pc, idle_errors,
                    client_ev_init_errors, loop, socktype,
                    write_data, pair, freed, clients_list, clients_list_lock,
                    cl_pc, connection_count, reg, now, timer_at, session,
                    rtp_sessions, decs, init_err >>

\* g_mutex_unlock at the end of clients_each; a build with
\* CLEANUP_DESTRUCTOR goes on to lines 159-161.
CleanupUnlock ==
    /\ Alive
    /\ cl_pc = "foreach"
    /\ cl_i > Len(clients_list)
    /\ clients_list_lock' = "free"
    /\ cl_pc' = IF env.destructor THEN "destroy" ELSE "done"
    /\ UNCHANGED << env, ioVars, admVars, nadmitted, lpc, lreg, last_accept, pc, idle_errors,
                    client_ev_init_errors, loop, loop_done,
                    socktype, write_data, pair, freed, clients_list, cl_i,
                    connection_count, reg, now, timer_at, session,
                    rtp_sessions, decs, stops, init_err >>

\* lines 159-161: g_ptr_array_free, g_thread_pool_free (immediate, not
\* waiting) and g_mutex_free, right after the broadcast.  The pool starts
\* no Client still queued; the workers inside client_loop run on.
CleanupDestroy ==
    /\ Alive
    /\ cl_pc = "destroy"
    /\ statics' = "freed"
    /\ cl_pc' = "done"
    /\ UNCHANGED << env, ioVars, loop_err, nfailed, stray_sds, nadmitted,
                    lpc, lreg, last_accept, pc, idle_errors,
                    client_ev_init_errors, loop, loop_done, socktype,
                    write_data, pair, freed, clients_list,
                    clients_list_lock, cl_i, connection_count, reg, now,
                    timer_at, session, rtp_sessions, decs, stops, init_err >>

\* A thread is about to use what clients_cleanup has freed: a worker at
\* g_mutex_lock of line 262 or 274, the listener at g_thread_pool_push.
UsesFreedStatics ==
    /\ statics = "freed"
    /\ \/ lpc = "inc"
       \/ \E c \in Clients : pc[c] \in {"add", "stopped"}

\* The use of the freed memory faults and the process ends.  The other
\* outcome, the memory still holding what it held, is the step the thread
\* takes as if nothing had been freed.
UseAfterFree ==
    /\ UsesFreedStatics
    /\ statics' = "fault"
    /\ UNCHANGED << env, ioVars, loop_err, nfailed, stray_sds, nadmitted,
                    lpc, lreg, last_accept, pc, idle_errors,
                    client_ev_init_errors, loop, loop_done, socktype,
                    write_data, pair, freed, clients_list,
                    clients_list_lock, cl_pc, cl_i, connection_count, reg,
                    now, timer_at, session, rtp_sessions, decs, stops,
                    init_err >>

\* ------------------------------------------------------------- specification
Outcomes == {"ok", "accept", "getsockname", "assert", "getsockopt"}

Protos == {"TCP", "SCTP", "OTHER"}

InitState ==
    /\ nadmitted = 0
    /\ lpc = "idle" /\ lreg = 0
    /\ last_accept = "none"
    /\ pc = [c \in Clients |-> "none"]
    /\ idle_errors = 0
    /\ client_ev_init_errors = [t \in Threads |-> 0]
    /\ loop = [c \in Clients |-> "none"]
    /\ loop_done = [c \in Clients |-> FALSE]
    /\ socktype = [c \in Clients |-> "unset"]
    /\ write_data = [c \in Clients |-> "NULL"]
    /\ pair = [c \in Clients |-> NullPair]
    /\ freed = [c \in Clients |-> 0]
    /\ clients_list = << >>
    /\ clients_list_lock = "free"
    /\ cl_pc = "idle" /\ cl_i = 0
    /\ connection_count = 0
    /\ reg = [c \in Clients |-> 0]
    /\ now = 0
    /\ timer_at = [c \in Clients |-> -1]
    /\ session = [c \in Clients |-> FALSE]
    /\ rtp_sessions = [c \in Clients |-> << >>]
    /\ decs = [c \in Clients |-> 0]
    /\ stops = [c \in Clients |-> {}]
    /\ init_err = [c \in Clients |-> FALSE]
    /\ loop_err = [c \in Clients |-> FALSE]
    /\ nfailed = 0
    /\ stray_sds = 0
    /\ statics = "live"
    /\ out_queue = [c \in Clients |-> << >>]
    /\ ev_io_write = [c \in Clients |-> FALSE]
    /\ wire = [c \in Clients |-> << >>]
    /\ enqueued = [c \in Clients |-> << >>]

\* The connection lifecycle under concurrency: NClients TCP connections,
\* libev errors possible in the workers.
Init ==
    /\ env = [nclients |-> NClients, nsessions |-> 0, sctp |-> FALSE, destructor |-> FALSE,
              outcomes |-> {"ok"}, protos |-> {"TCP"}, lerrs |-> {FALSE},
              werrs |-> BOOLEAN]
    /\ InitState

Next ==
    \/ \E o \in env.outcomes, p \in env.protos, e \in env.lerrs :
          IncomingAccept(o, p, e)
    \/ IncomingPush
    \/ \E c \in Clients, st \in BOOLEAN, e \in env.werrs : ClientLoopInit(c, st, e)
    \/ \E c \in Clients : Register(c)
    \/ \E c \in Clients : EvLoopEnter(c)
    \/ \E c \in Clients : ReadCbStop(c)
    \/ \E c \in Clients : EvLoopExit(c)
    \/ \E c \in Clients : Unregister(c)
    \/ \E c \in Clients : CountLoad(c)
    \/ \E c \in Clients : CountStore(c)
    \/ \E c \in Clients : Teardown(c)
    \/ \E c \in Clients : FreeSelf(c)
    \/ \E g \in Clients, p \in Clients : TunnelPair(g, p)
    \/ CleanupLock
    \/ CleanupForeach
    \/ CleanupUnlock

Spec == Init /\ [][Next]_vars

\* One client with RTP sessions, under the wall clock: the timeout timer.
Sources == {"LIVE_SOURCE", "STORED_SOURCE"}

InitT ==
    /\ env = [nclients |-> 1, nsessions |-> MaxSessions, sctp |-> FALSE, destructor |-> FALSE,
              outcomes |-> {"ok"}, protos |-> {"TCP"}, lerrs |-> {FALSE},
              werrs |-> {FALSE}]
    /\ InitState

NextT ==
    \/ \E o \in env.outcomes, p \in env.protos, e \in env.lerrs :
          IncomingAccept(o, p, e)
    \/ IncomingPush
    \/ \E c \in Clients, st \in BOOLEAN, e \in env.werrs : ClientLoopInit(c, st, e)
    \/ \E c \in Clients : Register(c)
    \/ \E c \in Clients : EvLoopEnter(c)
    \/ \E c \in Clients : ReadCbStop(c)
    \/ \E c \in Clients : EvLoopExit(c)
    \/ \E c \in Clients : Unregister(c)
    \/ \E c \in Clients : CountLoad(c)
    \/ \E c \in Clients : CountStore(c)
    \/ \E c \in Clients : Teardown(c)
    \/ \E c \in Clients : RtspSessionNew(c)
    \/ \E c \in Clients, src \in Sources : RtpSessionAttach(c, src)
    \/ \E c \in Clients : TimerArm(c)
    \/ \E c \in Clients : client_ev_timeout(c)
    \/ Tick

SpecT == InitT /\ [][NextT]_vars

\* The same client, stopped in every way there is: by its read callback,
\* by the timeout timer, by the shutdown broadcast.
InitK ==
    /\ env = [nclients |-> 1, nsessions |-> KickSessions, sctp |-> FALSE, destructor |-> FALSE,
              outcomes |-> {"ok"}, protos |-> {"TCP"}, lerrs |-> {FALSE},
              werrs |-> {FALSE}]
    /\ InitState

NextK ==
    \/ NextT
    \/ CleanupLock
    \/ CleanupForeach
    \/ CleanupUnlock

SpecK == InitK /\ [][NextK]_vars

\* The same, with several RTP sessions.
SpecM == InitT /\ [][NextK]_vars

\* Every thread that can take a step is eventually scheduled: the pool
\* workers, the thread inside clients_cleanup, and libev, which leaves
\* ev_loop once loop_done is set.
WorkerStep(c) ==
    \/ \E st \in BOOLEAN, e \in env.werrs : ClientLoopInit(c, st, e)
    \/ Register(c) \/ EvLoopEnter(c) \/ EvLoopExit(c) \/ Unregister(c)
    \/ CountLoad(c) \/ CountStore(c) \/ Teardown(c) \/ FreeSelf(c)

CleanupStep == CleanupForeach \/ CleanupUnlock

FairSpecK ==
    /\ SpecK
    /\ \A c \in Clients : WF_vars(WorkerStep(c))
    /\ WF_vars(CleanupStep)

\* Admission: every outcome of the listener's system calls and every
\* socket protocol, with and without ENABLE_SCTP, while the workers of the
\* Clients already admitted go through their lives.
InitA ==
    /\ \E s \in BOOLEAN :
         env = [nclients |-> NClients, nsessions |-> 0, sctp |-> s, destructor |-> FALSE,
                outcomes |-> Outcomes, protos |-> Protos, lerrs |-> {FALSE},
                werrs |-> {FALSE}]
    /\ InitState

NextA ==
    \/ \E o \in env.outcomes, p \in env.protos, e \in env.lerrs :
          IncomingAccept(o, p, e)
    \/ IncomingPush
    \/ \E c \in Clients, st \in BOOLEAN, e \in env.werrs : ClientLoopInit(c, st, e)
    \/ \E c \in Clients : Register(c)
    \/ \E c \in Clients : EvLoopEnter(c)
    \/ \E c \in Clients : ReadCbStop(c)
    \/ \E c \in Clients : EvLoopExit(c)
    \/ \E c \in Clients : Unregister(c)
    \/ \E c \in Clients : CountLoad(c)
    \/ \E c \in Clients : CountStore(c)
    \/ \E c \in Clients : Teardown(c)

SpecA == InitA /\ [][NextA]_vars

\* One TCP Client whose RTSP layer writes messages while the socket takes
\* them whole, in part or not at all.
InitW ==
    /\ env = [nclients |-> 1, nsessions |-> 0, sctp |-> FALSE, destructor |-> FALSE,
              outcomes |-> {"ok"}, protos |-> {"TCP"}, lerrs |-> {FALSE},
              werrs |-> {FALSE}]
    /\ InitState

NextW ==
    \/ \E o \in env.outcomes, p \in env.protos, e \in env.lerrs :
          IncomingAccept(o, p, e)
    \/ IncomingPush
    \/ \E c \in Clients, st \in BOOLEAN, e \in env.werrs : ClientLoopInit(c, st, e)
    \/ \E c \in Clients : Register(c)
    \/ \E c \in Clients : EvLoopEnter(c)
    \/ \E c \in Clients : ReadCbStop(c)
    \/ \E c \in Clients : EvLoopExit(c)
    \/ \E c \in Clients : Unregister(c)
    \/ \E c \in Clients : CountLoad(c)
    \/ \E c \in Clients : CountStore(c)
    \/ \E c \in Clients : Teardown(c)
    \/ \E c \in Clients, len \in 1..MsgLen : rtsp_write_string(c, len)
    \/ \E c \in Clients, n \in (-1)..MsgLen : rtsp_tcp_write_cb(c, n)

SpecW == InitW /\ [][NextW]_vars

\* The connection lifecycle with libev errors possible on the listener
\* thread (inside ev_loop_new) as well as in the workers.
InitE ==
    /\ env = [nclients |-> NClients, nsessions |-> 0, sctp |-> FALSE, destructor |-> FALSE,
              outcomes |-> {"ok"}, protos |-> {"TCP"}, lerrs |-> BOOLEAN,
              werrs |-> BOOLEAN]
    /\ InitState

SpecE == InitE /\ [][Next]_vars

\* The connection lifecycle in a build with CLEANUP_DESTRUCTOR.
InitD ==
    /\ env = [nclients |-> NClients, nsessions |-> 0, sctp |-> FALSE,
              destructor |-> TRUE, outcomes |-> {"ok"}, protos |-> {"TCP"},
              lerrs |-> {FALSE}, werrs |-> {FALSE}]
    /\ InitState

NextD ==
    \/ Next
    \/ CleanupDestroy
    \/ UseAfterFree

SpecD == InitD /\ [][NextD]_vars

\* ------------------------------------------------------------- properties
Paired(c) == pair[c] # NullPair

RtspSide(c) == Paired(c) /\ pair[c].rtsp_client = c

HttpSide(c) == Paired(c) /\ pair[c].http_client = c

Admitted(c) == pc[c] \notin {"none", "new"}

\* The Client's teardown has run to its end.
TornDown(c) ==
    /\ pc[c] = "done"
    /\ ~InRegistry(c)
    /\ decs[c] = 1
    /\ loop[c] = "destroyed"
    /\ freed[c] = 1

\* C1: each Client structure of an HTTP-tunnel pair is freed exactly once,
\* in whatever order the two loops exit: never twice, and not left
\* unfreed once both workers have finished.
C1_PairFreedExactlyOnce ==
    \A c \in Clients :
        Paired(c) =>
            /\ freed[c] <= 1
            /\ (pc[pair[c].rtsp_client] = "done" /\ pc[pair[c].http_client] = "done")
                   => freed[c] = 1

\* C2 as stated: a Client is in the registry exactly when its loop is
\* running.
C2_RegisteredIffRunning ==
    \A c \in Clients : InRegistry(c) <=> pc[c] = "run"

\* C2 amended: a running loop belongs to a registered Client, and a
\* registered Client is one whose worker is between the registry add and
\* the registry remove of client_loop (about to enter ev_loop, inside it,
\* or just returned from it).
C2_RegisteredAroundLoop ==
    \A c \in Clients :
        /\ pc[c] = "run" => InRegistry(c)
        /\ InRegistry(c) => pc[c] \in {"enter", "run", "stopped"}

C2_Witness ==
    \E c \in Clients : InRegistry(c) /\ pc[c] = "stopped"

\* C3: whenever no increment or decrement is in progress, connection_count
\* is the number of Clients admitted and not yet torn down; no update is
\* lost and the count is never negative.
C3_CountIsLiveClients ==
    /\ connection_count >= 0
    /\ (lpc = "idle" /\ \A c \in Clients : pc[c] # "dec_store")
           => connection_count =
                  Cardinality({c \in Clients : Admitted(c) /\ decs[c] = 0})

\* C4: after a shutdown broadcast that reached every admitted Client, once
\* all their workers have finished the registry is empty and the
\* connection count is back to zero.
C4_BroadcastDrainsAll ==
    ( /\ cl_pc = "done"
      /\ lpc = "idle"
      /\ nadmitted > 0
      /\ \A c \in 1..nadmitted : pc[c] = "done" /\ "broadcast" \in stops[c] )
        => (clients_list = << >> /\ connection_count = 0)

\* C5: an RTP session of a running client that reached STREAM_TIMEOUT
\* seconds of idleness has its client's loop stopped within one timer
\* period (STREAM_TIMEOUT seconds) from then.
C5_IdleSessionKicked ==
    \A c \in Clients :
        \A i \in 1..Len(rtp_sessions[c]) :
            ( /\ pc[c] = "run"
              /\ now - rtp_sessions[c][i].last_packet_send_time
                     > STREAM_TIMEOUT + STREAM_TIMEOUT )
                => loop_done[c]

\* C6: a hard kick caused by a LIVE session comes after at least one RTCP
\* BYE emitted for that session, whatever the phase of the timer.
C6_ByeBeforeKick ==
    \A c \in Clients :
        \A i \in 1..Len(rtp_sessions[c]) :
            LET s == rtp_sessions[c][i] IN
                (s.source = "LIVE_SOURCE" /\ s.byes_at_kick # -1)
                    => s.byes_at_kick >= 1

C6_Witness ==
    \E c \in Clients :
        \E i \in 1..Len(rtp_sessions[c]) :
            /\ rtp_sessions[c][i].source = "LIVE_SOURCE"
            /\ rtp_sessions[c][i].byes_at_kick = 2
            /\ loop_done[c]

\* C7: an unpaired Client whose loop has been stopped, by the read
\* callback, the timeout timer or the shutdown broadcast, is eventually
\* torn down: out of the registry, its count-- executed once, its loop
\* destroyed, its structure freed once.
C7_StoppedIsTornDown ==
    \A c \in Clients :
        (pc[c] = "run" /\ loop_done[c] /\ ~Paired(c)) ~> TornDown(c)

C7_Witness ==
    \E c \in Clients :
        TornDown(c) /\ ~Paired(c) /\ stops[c] = {"read", "timeout", "broadcast"}

\* C8 as stated: the side of a pair that does not carry RTSP, exiting while
\* its sibling is still running, is freed by its own teardown.
C8_SiblingFreesItself ==
    \A g \in Clients :
        (HttpSide(g) /\ pc[g] = "done" /\ pc[pair[g].rtsp_client] = "run")
            => freed[g] = 1

\* C8 amended: the teardown of the side that does not carry RTSP frees
\* nothing; that Client is freed only by the RTSP-carrying side, which on
\* its exit frees the sibling first and then itself.
C8_RtspSideFreesBoth ==
    \A g \in Clients :
        HttpSide(g) =>
            LET p == pair[g].rtsp_client IN
                /\ freed[g] >= 1 => pc[p] \in {"free_self", "done"}
                /\ pc[p] = "free_self" => (freed[g] >= 1 /\ freed[p] = 0)
                /\ pc[p] = "done" => freed[p] = 1

C8_Witness ==
    \E g \in Clients :
        /\ HttpSide(g) /\ pc[g] = "done" /\ freed[g] = 0
        /\ pc[pair[g].rtsp_client] = "run"

\* C9: while a Client's loop is running no other thread frees or mutates
\* the Client; a foreign thread only posts a loop stop.
C9_SingleOwner ==
    \A c \in Clients : pc[c] = "run" => freed[c] = 0

C11_AdmissionErrorLeavesCore ==
    /\ [](stray_sds = 0)
    /\ []((nfailed > 0 /\ lpc = "idle" /\ nadmitted < env.nclients)
             => ENABLED IncomingAccept("ok", "TCP", FALSE))
    /\ [][nfailed' # nfailed =>
             /\ pc' = pc /\ loop' = loop /\ nadmitted' = nadmitted
             /\ socktype' = socktype /\ write_data' = write_data
             /\ connection_count' = connection_count
             /\ clients_list' = clients_list
             /\ clients_list_lock' = clients_list_lock
             /\ lpc' = "idle"]_vars

C11_Witness ==
    /\ nfailed >= 2
    /\ last_accept = "admitted"
    /\ nadmitted >= 1 /\ InRegistry(1) /\ connection_count >= 1

\* C12: every Client handed to the worker pool has a transport kind, TCP
\* or SCTP, and the write strategy that goes with it; a connection of any
\* other socket protocol is admitted as TCP or not at all.
C12_AdmittedHasWriteStrategy ==
    \A c \in Clients :
        (Admitted(c) /\ freed[c] = 0) =>
            \/ socktype[c] = "RTSP_TCP"
                  /\ write_data[c] = "rtsp_write_data_queue"
            \/ socktype[c] = "RTSP_SCTP"
                  /\ write_data[c] = "rtsp_sctp_send_rtsp"

\* A step in which some thread calls ev_unloop on c's loop, once or more:
\* the read callback, the broadcast reaching c, a tick finding sessions
\* past the hard timeout.
StopsLoop(c) ==
    \/ ReadCbStop(c)
    \/ CleanupForeach /\ clients_list[cl_i] = c
    \/ /\ client_ev_timeout(c)
       /\ session[c]
       /\ \E i \in 1..Len(rtp_sessions[c]) : HardTimedOut(rtp_sessions[c][i], now)

\* C13: loop-stop is idempotent.  However many ev_unloop calls one step
\* makes on a Client, the loop is left as one call leaves it; a stop on a
\* loop already stopped changes nothing; no stop moves the worker or frees
\* anything by itself; and a Client stopped several times is torn down
\* once.
C13_StopIsIdempotent ==
    /\ [][\A c \in Clients :
             StopsLoop(c) =>
                 /\ loop_done' = ev_unloop(loop_done, c)
                 /\ loop_done[c] => loop_done' = loop_done
                 /\ pc' = pc /\ loop' = loop /\ freed' = freed
                 /\ decs' = decs /\ clients_list' = clients_list]_vars
    /\ [](\A c \in Clients : pc[c] = "done" => TornDown(c))

C13_Witness ==
    \E c \in Clients :
        /\ pc[c] = "dec"
        /\ stops[c] = {"read", "timeout", "broadcast"}
        /\ Len(rtp_sessions[c]) >= 2
        /\ \A i \in 1..Len(rtp_sessions[c]) :
               /\ rtp_sessions[c][i].byes_at_kick # -1
               /\ rtp_sessions[c][i].last_packet_send_time
                      = rtp_sessions[c][1].last_packet_send_time

\* The Clients whose worker has done the registry add of client_loop and
\* not yet the remove.
AddedNotRemoved == { c \in Clients : pc[c] \in {"enter", "run", "stopped"} }

\* C14: the registry is a set.  Its members are exactly the Clients added
\* and not yet removed, each held once: an add followed by the remove of
\* the same Client takes that Client out and leaves what the adds and
\* removes of the other Clients, interleaved with them, put there.
C14_AddRemoveLeavesOthers ==
    /\ Cardinality(Range(clients_list)) = Len(clients_list)
    /\ Range(clients_list) = AddedNotRemoved

C14_Witness ==
    \E c \in Clients, d \in Clients :
        /\ c # d
        /\ pc[c] = "dec" /\ stops[c] # {}
        /\ clients_list = << d >>
        /\ c < d

\* C15: for a TCP Client the socket takes the bytes in the order they were
\* written.  Each write puts its buffer at the tail of the output queue
\* and starts the write watcher; what the socket has taken, followed by
\* what is queued from the head on, is what was written; and while the
\* loop runs the watcher is active exactly when the queue is not empty.
C15_WireInEnqueueOrder ==
    /\ [](\A c \in Clients :
            /\ Len(wire[c]) <= Len(enqueued[c])
            /\ wire[c] = SubSeq(enqueued[c], 1, Len(wire[c]))
            /\ (pc[c] = "run" /\ freed[c] = 0) =>
                   /\ wire[c] \o Flatten(out_queue[c]) = enqueued[c]
                   /\ ev_io_write[c] <=> out_queue[c] # << >>)
    /\ [][\A c \in Clients :
             enqueued'[c] # enqueued[c] =>
                 /\ Len(out_queue'[c]) = Len(out_queue[c]) + 1
                 /\ SubSeq(out_queue'[c], 1, Len(out_queue[c])) = out_queue[c]
                 /\ enqueued'[c] =
                        enqueued[c] \o out_queue'[c][Len(out_queue'[c])]
                 /\ ev_io_write'[c]]_vars

C15_Witness ==
    \E c \in Clients :
        /\ pc[c] = "run"
        /\ Len(wire[c]) = 3
        /\ Len(out_queue[c]) = 2
        /\ Len(out_queue[c][1]) = 1
        /\ Written(c) = 3

\* C16: a tick of the timeout timer stops the loop only if some attached
\* RTP session has been idle for STREAM_TIMEOUT seconds or more.  A tick
\* that only sends BYEs, or finds no RTSP session or no RTP session, leaves
\* the loop as it was, running and registered; every tick rearms the timer
\* one period ahead.
C16_TickKicksOnlyOnHardTimeout ==
    [][\A c \in Clients :
          client_ev_timeout(c) =>
              /\ timer_at'[c] = now + STREAM_TIMEOUT
              /\ pc'[c] = "run" /\ c \in Range(clients_list')
              /\ ( \/ ~session[c]
                   \/ \A i \in 1..Len(rtp_sessions[c]) :
                         now - rtp_sessions[c][i].last_packet_send_time
                             < STREAM_TIMEOUT )
                    => (loop_done'[c] = loop_done[c] /\ stops'[c] = stops[c])]_vars

C16_Witness ==
    \E c \in Clients :
        /\ pc[c] = "run" /\ ~loop_done[c] /\ InRegistry(c)
        /\ timer_at[c] = now + STREAM_TIMEOUT
        /\ Len(rtp_sessions[c]) = 1
        /\ rtp_sessions[c][1].source = "LIVE_SOURCE"
        /\ rtp_sessions[c][1].byes = 1
        /\ rtp_sessions[c][1].byes_at_kick = -1

\* C17: no RTCP BYE is ever emitted for a STORED-source session, however
\* long it has been idle; a tick that finds one idle for STREAM_TIMEOUT
\* seconds or more stops the client's loop.
C17_StoredKickedWithoutBye ==
    /\ [](\A c \in Clients :
            \A i \in 1..Len(rtp_sessions[c]) :
                rtp_sessions[c][i].source = "STORED_SOURCE"
                    => rtp_sessions[c][i].byes = 0)
    /\ [][\A c \in Clients :
             ( /\ client_ev_timeout(c)
               /\ session[c]
               /\ \E i \in 1..Len(rtp_sessions[c]) :
                     /\ rtp_sessions[c][i].source = "STORED_SOURCE"
                     /\ now - rtp_sessions[c][i].last_packet_send_time
                            >= STREAM_TIMEOUT )
                 => (loop_done'[c] /\ "timeout" \in stops'[c])]_vars

C17_Witness ==
    \E c \in Clients :
        /\ pc[c] = "run" /\ loop_done[c] /\ stops[c] = {"timeout"}
        /\ Len(rtp_sessions[c]) = 1
        /\ rtp_sessions[c][1].source = "STORED_SOURCE"
        /\ rtp_sessions[c][1].byes_at_kick = 0
        /\ now - rtp_sessions[c][1].last_packet_send_time > STREAM_TIMEOUT

\* The worker of c went from the test of the error flag straight to the
\* teardown: past the loop with no stop ever issued on it.
SkippedLoop(c) ==
    /\ pc[c] \in {"dec", "dec_store", "teardown", "free_self", "done"}
    /\ stops[c] = {}

\* The worker of c passed the test and registered.
PassedTest(c) ==
    \/ pc[c] \in {"add", "enter", "run", "stopped"}
    \/ pc[c] \in {"dec", "dec_store", "teardown", "free_self", "done"}
          /\ stops[c] # {}

\* C18: a libev system error skips the loop of the Client during whose
\* setup it was reported, and of no other: a Client with no error of its
\* own passes the test, also on a thread that served a failed Client
\* before, and a Client whose loop creation on the listener thread reported
\* an error does not.
C18_ErrorIsPerClient ==
    \A c \in Clients :
        /\ SkippedLoop(c) => (init_err[c] \/ loop_err[c])
        /\ PassedTest(c) => (~init_err[c] /\ ~loop_err[c])

\* C19: every Client in the registry is un-freed and its loop exists and
\* has not been destroyed, so the broadcast never reaches a freed Client;
\* and no Client is freed while its loop runs, a paired Client whose
\* sibling tears down first included.
C19_RegisteredIsLive ==
    \A c \in Clients :
        /\ InRegistry(c) => (freed[c] = 0 /\ loop[c] = "live")
        /\ (pc[c] = "run" /\ Paired(c)) => freed[c] = 0

C21_StaticsOutliveWorkers ==
    statics # "live" =>
        /\ clients_list = << >>
        /\ \A c \in Clients : pc[c] \notin {"add", "enter", "run", "stopped"}

====
